---- MODULE Spec2Model ----
(***************************************************************************)
(* Model of the Huobi streaming adapter                                    *)
(* (src/price-server/src/provider/crypto/Huobi.ts).                        *)
(*                                                                         *)
(* Strings are sequences of one-character strings so that replace,         *)
(* toLowerCase, toUpperCase and indexOf are computed, not assumed.         *)
(* Decimals (the values num() builds) are fractions [n, d]; d = 0 encodes  *)
(* the non-finite results of a division by zero (Infinity, NaN).           *)
(***************************************************************************)
EXTENDS Integers, Sequences, FiniteSets, TLC

VARIABLES
    isUpdated,   \* Huobi.isUpdated, the liveness flag
    tradesMap,   \* store of windows, written by setTrades (key -> window | NoEntry)
    priceMap,    \* store of latest prices, written by setPrice (key -> decimal | NoEntry)
    rate,        \* what fiatProvider.getPriceBy('KRW/USD') returns now
    pc,          \* position of initialize(): "new", "fetching", "done"
    idx,         \* index in this.symbols of the symbol whose request is in flight
    ws,          \* transport: "none", "connecting", "open"
    connectCalls,\* number of calls of this.connect(...)
    attempts,    \* per configured symbol, number of historical-candle requests issued
    fresh,       \* since the last update() call, initialize() finished or a tick for a
                 \* configured symbol was handled without error
    last         \* the last handler that ran: its kind, inputs, outcome and frames sent

vars == <<isUpdated, tradesMap, priceMap, rate, pc, idx, ws, connectCalls,
          attempts, fresh, last>>

----------------------------------------------------------------------------
(* Bounds of the model *)

MaxEntries == 2     \* inputs that would bring the configured symbols' windows to more
                    \* entries than this, all together, are not generated
MaxCandles == 2     \* longest historical-candle payload generated

----------------------------------------------------------------------------
(* Strings *)

Lower == <<"a", "b", "c", "d", "e", "f", "g", "h", "i", "j", "k", "l", "m",
           "n", "o", "p", "q", "r", "s", "t", "u", "v", "w", "x", "y", "z">>
Upper == <<"A", "B", "C", "D", "E", "F", "G", "H", "I", "J", "K", "L", "M",
           "N", "O", "P", "Q", "R", "S", "T", "U", "V", "W", "X", "Y", "Z">>

UpperChar(c) ==
    IF \E i \in 1..Len(Lower) : Lower[i] = c
    THEN Upper[CHOOSE i \in 1..Len(Lower) : Lower[i] = c]
    ELSE c

LowerChar(c) ==
    IF \E i \in 1..Len(Upper) : Upper[i] = c
    THEN Lower[CHOOSE i \in 1..Len(Upper) : Upper[i] = c]
    ELSE c

ToUpperCase(s) == [i \in 1..Len(s) |-> UpperChar(s[i])]

ToLowerCase(s) == [i \in 1..Len(s) |-> LowerChar(s[i])]

\* String.prototype.indexOf: 0-based position of the first occurrence, -1 if none
IndexOf(s, p) ==
    LET hits == {i \in 1..(Len(s) - Len(p) + 1) : SubSeq(s, i, i + Len(p) - 1) = p}
    IN  IF hits = {} THEN -1
        ELSE (CHOOSE i \in hits : \A j \in hits : i <= j) - 1

\* String.prototype.replace with a string pattern: the first occurrence only
Replace(s, p, r) ==
    LET i == IndexOf(s, p)
    IN  IF i = -1 THEN s
        ELSE SubSeq(s, 1, i) \o r \o SubSeq(s, i + Len(p) + 1, Len(s))

Slash == <<"/">>
MarketPrefix == <<"m", "a", "r", "k", "e", "t", ".">>
KlineSuffix == <<".", "k", "l", "i", "n", "e", ".", "1", "m", "i", "n">>
USDT == <<"U", "S", "D", "T">>
KRW == <<"K", "R", "W">>

\* lib/currency: 'BASE/QUOTE' -> 'BASE' and 'QUOTE'
getBaseCurrency(symbol) == SubSeq(symbol, 1, IndexOf(symbol, Slash))

getQuoteCurrency(symbol) == SubSeq(symbol, IndexOf(symbol, Slash) + 2, Len(symbol))

\* `${getBaseCurrency(symbol)}/KRW`
ConvertedSymbol(symbol) == getBaseCurrency(symbol) \o Slash \o KRW

\* `market.${symbol.replace('/', '').toLowerCase()}.kline.1min`
ChannelOf(symbol) == MarketPrefix \o ToLowerCase(Replace(symbol, Slash, <<>>)) \o KlineSuffix

----------------------------------------------------------------------------
(* Configuration: this.symbols *)

BTCUSDT == <<"B", "T", "C", "/", "U", "S", "D", "T">>
ETHBTC == <<"E", "T", "H", "/", "B", "T", "C">>

symbols == <<BTCUSDT, ETHBTC>>

SymbolSet == {symbols[i] : i \in 1..Len(symbols)}

getAutomadeSymbols == {ConvertedSymbol(s) : s \in {t \in SymbolSet : getQuoteCurrency(t) = USDT}}

\* every key the adapter could write: the configured symbols and X/KRW for each
StoreKeys == SymbolSet \cup {ConvertedSymbol(s) : s \in SymbolSet}

----------------------------------------------------------------------------
(* Decimals *)

RECURSIVE Gcd(_, _)
Gcd(a, b) == IF b = 0 THEN a ELSE Gcd(b, a % b)

\* a fraction in lowest terms; n/0 is Infinity (n > 0) or NaN (n = 0)
Frac(n, d) ==
    IF d = 0 THEN [n |-> IF n = 0 THEN 0 ELSE 1, d |-> 0]
    ELSE LET g == Gcd(n, d) IN [n |-> n \div g, d |-> d \div g]

\* lib/num: num(x) of a JS number
num(x) == Frac(x, 1)

\* BigNumber.dividedBy
dividedBy(a, b) == Frac(a.n * b.d, a.d * b.n)

NoEntry == [none |-> TRUE]

\* fiatProvider.getPriceBy('KRW/USD') returns a decimal, or nothing
Rates == {NoEntry, num(2)}

----------------------------------------------------------------------------
(* The shared store: setTrades / getTrades / setPrice *)

Window(w) == [trades |-> w]

setTrades(st, key, w) == [st EXCEPT !.t[key] = Window(w)]

setPrice(st, key, price) == [st EXCEPT !.p[key] = price]

\* `this.getTrades(symbol) || []`
getTradesOrEmpty(st, key) == IF st.t[key] = NoEntry THEN <<>> ELSE st.t[key].trades

Trade(timestamp, price, volume) ==
    [timestamp |-> timestamp, price |-> price, volume |-> volume]

----------------------------------------------------------------------------
(* Currency synthesis: automadeTrades *)

\* `!rate`: true of undefined only, a decimal object is truthy whatever its value
RateMissing(r) == r = NoEntry

\* calculatedTrades without the division
calculatedTradesSamePrice(trades, r) ==
    [i \in 1..Len(trades) |->
        Trade(trades[i].timestamp, trades[i].price, trades[i].volume)]

\* trades.map(...) of automadeTrades
calculatedTrades(trades, r) ==
    [i \in 1..Len(trades) |->
        Trade(trades[i].timestamp, dividedBy(trades[i].price, r), trades[i].volume)]

\* the store after automadeTrades(symbol, trades); threw: reading the price of the
\* last element of an empty array raised a TypeError after the window was written
automadeTrades(st, symbol, trades, r) ==
    IF getQuoteCurrency(symbol) # USDT \/ RateMissing(r)
    THEN [st |-> st, threw |-> FALSE]
    ELSE LET conv == ConvertedSymbol(symbol)
             calc == calculatedTrades(trades, r)
         IN  IF Len(calc) = 0
             THEN [st |-> setTrades(st, conv, calc), threw |-> TRUE]
             ELSE [st |-> setPrice(setTrades(st, conv, calc), conv, calc[Len(calc)].price),
                   threw |-> FALSE]

----------------------------------------------------------------------------
(* Bootstrap: fetchLatestTrades *)

\* rows of a historical-candle payload: close 1 with amount 1 and value 1, and close 2
\* with amount 0 and value 0 or 1
CandleIds == {1, 2}
CandleValues == {[close |-> 1, amount |-> 1, vol |-> 1],
                 [close |-> 2, amount |-> 0, vol |-> 0],
                 [close |-> 2, amount |-> 0, vol |-> 1]}

Candles == {[id |-> i, close |-> v.close, amount |-> v.amount, vol |-> v.vol] :
                i \in CandleIds, v \in CandleValues}

RECURSIVE SeqsUpTo(_, _)
SeqsUpTo(S, n) ==
    IF n = 0 THEN {<<>>}
    ELSE LET shorter == SeqsUpTo(S, n - 1)
         IN  shorter \cup {Append(q, x) : q \in {r \in shorter : Len(r) = n - 1}, x \in S}

\* what the request resolves to: a rejection (network error, body that is not JSON),
\* a null body, or an object with a status and a data field
Responses ==
    {[kind |-> "reject", status |-> "", isArray |-> FALSE, data |-> <<>>],
     [kind |-> "null", status |-> "", isArray |-> FALSE, data |-> <<>>],
     [kind |-> "json", status |-> "error", isArray |-> TRUE, data |-> <<>>],
     [kind |-> "json", status |-> "ok", isArray |-> FALSE, data |-> <<>>]}
    \cup {[kind |-> "json", status |-> "ok", isArray |-> TRUE, data |-> d] :
            d \in SeqsUpTo(Candles, MaxCandles)}

\* the condition of the `if` that guards the throw of fetchLatestTrades
InvalidResponse(response) ==
    \/ response.kind = "null"
    \/ response.status # "ok"
    \/ ~response.isArray
    \/ Len(response.data) < 1

\* .filter((row) => parseFloat(row.vol) > 0)
FilterRows(data) == SelectSeq(data, LAMBDA row : row.vol > 0)

\* .map((row) => ({ price: num(row.close), volume: num(row.amount), timestamp: +row.id * 1000 }))
MapRows(rows) ==
    [i \in 1..Len(rows) |-> Trade(rows[i].id * 1000, num(rows[i].close), num(rows[i].amount))]

\* Array.prototype.sort with a comparator is stable: insertion after the last element
\* that does not compare greater
RECURSIVE InsertSorted(_, _)
InsertSorted(sorted, x) ==
    IF sorted = <<>> THEN <<x>>
    ELSE IF sorted[Len(sorted)].timestamp - x.timestamp <= 0 THEN Append(sorted, x)
    ELSE Append(InsertSorted(SubSeq(sorted, 1, Len(sorted) - 1), x), sorted[Len(sorted)])

\* SortByTimestamp without the sort
SortSkipped(trades) == trades

RECURSIVE SortByTimestamp(_)
SortByTimestamp(trades) ==
    IF trades = <<>> THEN <<>>
    ELSE InsertSorted(SortByTimestamp(SubSeq(trades, 1, Len(trades) - 1)), trades[Len(trades)])

\* the promise of fetchLatestTrades(symbol): rejected, or resolved with the trades
fetchLatestTrades(response) ==
    IF response.kind = "reject" \/ InvalidResponse(response)
    THEN [rejected |-> TRUE, trades |-> <<>>]
    ELSE [rejected |-> FALSE, trades |-> SortByTimestamp(MapRows(FilterRows(response.data)))]

\* ThenHandler without the early return on an empty result, the price being read only
\* when there is a last trade
ThenHandlerUnguarded(st, symbol, trades, r) ==
    LET stored == setTrades(st, symbol, trades)
        priced == IF Len(trades) = 0 THEN stored
                  ELSE setPrice(stored, symbol, trades[Len(trades)].price)
        res == automadeTrades(priced, symbol, trades, r)
    IN  [st |-> res.st, threw |-> res.threw, made |-> <<Len(trades)>>]

\* the .then handler of initialize() for one symbol: the store afterwards, whether it
\* threw, and the length of the window of each call of automadeTrades it made
ThenHandler(st, symbol, trades, r) ==
    IF Len(trades) = 0 THEN [st |-> st, threw |-> FALSE, made |-> <<>>]
    ELSE LET res == automadeTrades(setPrice(setTrades(st, symbol, trades), symbol,
                                            trades[Len(trades)].price),
                                   symbol, trades, r)
         IN  [st |-> res.st, threw |-> res.threw, made |-> <<Len(trades)>>]

----------------------------------------------------------------------------
(* Stream messages: onData *)

TickIds == {1, 2}
TickValues == {[close |-> 1, amount |-> 1], [close |-> 2, amount |-> 0]}
\* the nonces of the pings; the message of a ping of nonce 0 is, for every test of
\* onData, the message with no ping field
PingNonces == {0, 7, 8}

NoTick == [id |-> 0, close |-> 0, amount |-> 0]

\* a decoded message; an absent field is 0 (ping), the empty string (subbed, status, ch)
\* or hasTick = FALSE, which the tests of onData cannot tell from the field being absent
Message(ping, subbed, status, ch, hasTick, tick) ==
    [ping |-> ping, subbed |-> subbed, status |-> status, ch |-> ch,
     hasTick |-> hasTick, tick |-> tick]

EmptyMessage == Message(0, <<>>, "", <<>>, FALSE, NoTick)

OtherChannel == <<"m", "a", "r", "k", "e", "t", ".", "e", "t", "h", "u", "s", "d", "t",
                  ".", "k", "l", "i", "n", "e", ".", "1", "m", "i", "n">>
TradeChannel == <<"m", "a", "r", "k", "e", "t", ".", "b", "t", "c", "u", "s", "d", "t",
                  ".", "t", "r", "a", "d", "e">>

Messages ==
    {[EmptyMessage EXCEPT !.ping = n] : n \in PingNonces}
    \cup {[EmptyMessage EXCEPT !.subbed = ChannelOf(BTCUSDT), !.status = s] : s \in {"ok", "error"}}
    \cup {[EmptyMessage EXCEPT !.ch = ChannelOf(symbols[k]), !.hasTick = TRUE,
                               !.tick = [id |-> i, close |-> v.close, amount |-> v.amount]] :
            k \in 1..Len(symbols), i \in TickIds, v \in TickValues}
    \cup {[EmptyMessage EXCEPT !.ch = c, !.hasTick = TRUE,
                               !.tick = [id |-> 1, close |-> 1, amount |-> 1]] :
            c \in {OtherChannel, TradeChannel}}
    \cup {[EmptyMessage EXCEPT !.ch = ChannelOf(BTCUSDT)]}
    \cup {EmptyMessage}

\* a raw frame: whether pako.inflate and JSON.parse succeed on it, and the message it holds
Frames ==
    {[inflate |-> FALSE, parse |-> FALSE, msg |-> EmptyMessage],
     [inflate |-> TRUE, parse |-> FALSE, msg |-> EmptyMessage]}
    \cup {[inflate |-> TRUE, parse |-> TRUE, msg |-> m] : m \in Messages}

\* data.ch.replace('market.', '').replace('.kline.1min', '').toUpperCase()
StripChannel(ch) == ToUpperCase(Replace(Replace(ch, MarketPrefix, <<>>), KlineSuffix, <<>>))

\* FindSymbol comparing with the symbol's base currency only
FindSymbolByBase(ch) ==
    LET hits == {i \in 1..Len(symbols) :
                    SubSeq(ch, 1, Len(getBaseCurrency(symbols[i]))) = getBaseCurrency(symbols[i])}
    IN  IF hits = {} THEN 0 ELSE CHOOSE i \in hits : \A j \in hits : i <= j

\* this.symbols.find((symbol) => symbol.replace('/', '') === ch): the index of the
\* first match, 0 when find returns undefined
FindSymbol(ch) ==
    LET hits == {i \in 1..Len(symbols) : Replace(symbols[i], Slash, <<>>) = ch}
    IN  IF hits = {} THEN 0 ELSE CHOOSE i \in hits : \A j \in hits : i <= j

\* MergeTick without the lookup: every tick is pushed
MergeTickPush(trades, timestamp, price, volume) ==
    Append(trades, Trade(timestamp, price, volume))

\* trades.find((trade) => trade.timestamp === timestamp), then the update in place or
\* the push
MergeTick(trades, timestamp, price, volume) ==
    LET hits == {i \in 1..Len(trades) : trades[i].timestamp = timestamp}
    IN  IF hits # {}
        THEN LET i == CHOOSE k \in hits : \A j \in hits : k <= j
             IN  [trades EXCEPT ![i] = Trade(timestamp, price, volume)]
        ELSE Append(trades, Trade(timestamp, price, volume))

\* what a call of onData leaves: the store, the flag, the frames sent, whether it threw,
\* and the length of the window of each call of automadeTrades it made
Result(st, upd, sent, threw) ==
    [st |-> st, isUpdated |-> upd, sent |-> sent, threw |-> threw, made |-> <<>>]

\* ApplyTick without the assignment of the flag
ApplyTickNoFlag(st, upd, symbol, tick, r) ==
    LET timestamp == tick.id * 1000
        price == num(tick.close)
        volume == num(tick.amount)
        trades == MergeTick(getTradesOrEmpty(st, symbol), timestamp, price, volume)
        made == automadeTrades(setPrice(setTrades(st, symbol, trades), symbol, price),
                               symbol, trades, r)
    IN  [Result(made.st, upd, <<>>, made.threw) EXCEPT !.made = <<Len(trades)>>]

\* the market-data branch of onData for a message on a channel of a configured symbol
ApplyTick(st, upd, symbol, tick, r) ==
    LET timestamp == tick.id * 1000
        price == num(tick.close)
        volume == num(tick.amount)
        trades == MergeTick(getTradesOrEmpty(st, symbol), timestamp, price, volume)
        made == automadeTrades(setPrice(setTrades(st, symbol, trades), symbol, price),
                               symbol, trades, r)
    IN  [Result(made.st, IF made.threw THEN upd ELSE TRUE, <<>>, made.threw)
            EXCEPT !.made = <<Len(trades)>>]

\* the channels of the messages generated, and the symbol index each resolves to (the
\* resolution is computed once per channel)
Channels == {m.ch : m \in Messages}

Resolved == [c \in Channels |-> FindSymbol(StripChannel(c))]

IsMarket == [c \in Channels |-> IndexOf(c, MarketPrefix) = 0]

\* this.ws.send(`{"pong": ${streamData.ping}}`)
Pong(msg) == <<[pong |-> msg.ping]>>

\* AckRejected accepting every status
AckNeverRejected(msg) == FALSE

\* streamData.status !== 'ok', the condition of the throw on an acknowledgement
AckRejected(msg) == msg.status # "ok"

\* onData(streamData): the store, the flag, the frames sent, and whether it threw
onData(st, upd, msg, r) ==
    IF msg.ping # 0 THEN Result(st, upd, Pong(msg), FALSE)
    ELSE IF msg.subbed # <<>> THEN Result(st, upd, <<>>, AckRejected(msg))
    ELSE IF IsMarket[msg.ch]
    THEN LET i == Resolved[msg.ch]
         IN  IF i = 0 THEN Result(st, upd, <<>>, FALSE)
             ELSE IF ~msg.hasTick THEN Result(st, upd, <<>>, TRUE)
             ELSE ApplyTick(st, upd, symbols[i], msg.tick, r)
    ELSE Result(st, upd, <<>>, TRUE)

\* onRawData(gzipedData): pako.inflate runs outside the try block, so its exception
\* leaves the handler; what onData or JSON.parse throw is passed to errorHandler
onRawData(st, upd, frame, r) ==
    IF ~frame.inflate
    THEN [st |-> st, isUpdated |-> upd, sent |-> <<>>, outcome |-> "escaped", made |-> <<>>]
    ELSE IF ~frame.parse
    THEN [st |-> st, isUpdated |-> upd, sent |-> <<>>, outcome |-> "reported", made |-> <<>>]
    ELSE LET res == onData(st, upd, frame.msg, r)
         IN  [st |-> res.st, isUpdated |-> res.isUpdated, sent |-> res.sent,
              outcome |-> IF res.threw THEN "reported" ELSE "ok", made |-> res.made]

\* update() without the reset of the flag
updateKeepsFlag(upd) == [ret |-> upd, isUpdated |-> upd]

\* update(): the value returned and the flag afterwards
update(upd) == [ret |-> upd, isUpdated |-> FALSE]

\* onConnect naming the symbols in the case they are configured in
onConnectUpperCase ==
    [i \in 1..Len(symbols) |->
        [sub |-> MarketPrefix \o Replace(symbols[i], Slash, <<>>) \o KlineSuffix]]

\* the frames onConnect sends
onConnect == [i \in 1..Len(symbols) |-> [sub |-> ChannelOf(symbols[i])]]

----------------------------------------------------------------------------
(* The adapter as a state machine *)

NoFrame == [inflate |-> FALSE, parse |-> FALSE, msg |-> EmptyMessage]
NoResponse == [kind |-> "none", status |-> "", isArray |-> FALSE, data |-> <<>>]

\* the record of the handler that ran last
Event(kind, sym, outcome, ret, sent, frame, response) ==
    [kind |-> kind, sym |-> sym, outcome |-> outcome, ret |-> ret, sent |-> sent,
     frame |-> frame, response |-> response, made |-> <<>>]

Store == [t |-> tradesMap, p |-> priceMap]

\* the number of entries of the configured symbols' windows, all together
RECURSIVE Entries(_, _)
Entries(t, i) ==
    IF i = 0 THEN 0
    ELSE Entries(t, i - 1) + (IF t[symbols[i]] = NoEntry THEN 0 ELSE Len(t[symbols[i]].trades))

Init ==
    /\ isUpdated = FALSE
    /\ tradesMap = [k \in StoreKeys |-> NoEntry]
    /\ priceMap = [k \in StoreKeys |-> NoEntry]
    /\ rate = NoEntry
    /\ pc = "new"
    /\ idx = 0
    /\ ws = "none"
    /\ connectCalls = 0
    /\ attempts = [i \in 1..Len(symbols) |-> 0]
    /\ fresh = FALSE
    /\ last = Event("new", <<>>, "ok", FALSE, <<>>, NoFrame, NoResponse)

\* InitStart with connect called before the requests instead of after them
InitStartConnected ==
    /\ pc = "new"
    /\ pc' = "fetching"
    /\ idx' = 1
    /\ tradesMap' = setTrades(Store, symbols[1], <<>>).t
    /\ attempts' = [attempts EXCEPT ![1] = @ + 1]
    /\ ws' = "connecting"
    /\ connectCalls' = connectCalls + 1
    /\ last' = Event("start", symbols[1], "ok", FALSE, <<>>, NoFrame, NoResponse)
    /\ UNCHANGED <<isUpdated, priceMap, rate, fresh>>

\* initialize() up to its first await of a request: setTrades(symbol, []) and the
\* request for the first symbol
InitStart ==
    /\ pc = "new"
    /\ pc' = "fetching"
    /\ idx' = 1
    /\ tradesMap' = setTrades(Store, symbols[1], <<>>).t
    /\ attempts' = [attempts EXCEPT ![1] = @ + 1]
    /\ last' = Event("start", symbols[1], "ok", FALSE, <<>>, NoFrame, NoResponse)
    /\ UNCHANGED <<isUpdated, priceMap, rate, ws, connectCalls, fresh>>

\* FetchSettled without the .catch: a rejected request ends initialize()
FetchSettledUncaught(response) ==
    /\ pc = "fetching"
    /\ fetchLatestTrades(response).rejected
    /\ pc' = "failed"
    /\ last' = Event("fetch", symbols[idx], "escaped", FALSE, <<>>, NoFrame, response)
    /\ UNCHANGED <<isUpdated, tradesMap, priceMap, rate, idx, ws, connectCalls, attempts,
                   fresh>>

\* the request of symbols[idx] settles: its .then or .catch handler runs, then the loop
\* goes on to the next symbol, or ends, sets the flag and calls connect
FetchSettled(response) ==
    /\ pc = "fetching"
    /\ LET symbol == symbols[idx]
           fetched == fetchLatestTrades(response)
           handled == IF fetched.rejected THEN [st |-> Store, threw |-> FALSE, made |-> <<>>]
                      ELSE ThenHandler(Store, symbol, fetched.trades, rate)
           after == handled.st
       IN  /\ Entries(after.t, Len(symbols)) <= MaxEntries
           /\ priceMap' = after.p
           /\ last' = [Event("fetch", symbol,
                             IF fetched.rejected \/ handled.threw THEN "reported" ELSE "ok",
                             FALSE, <<>>, NoFrame, response)
                          EXCEPT !.made = handled.made]
           /\ IF idx < Len(symbols)
              THEN /\ idx' = idx + 1
                   /\ tradesMap' = setTrades(after, symbols[idx + 1], <<>>).t
                   /\ attempts' = [attempts EXCEPT ![idx + 1] = @ + 1]
                   /\ UNCHANGED <<pc, isUpdated, ws, connectCalls, fresh>>
              ELSE /\ pc' = "done"
                   /\ tradesMap' = after.t
                   /\ isUpdated' = TRUE
                   /\ ws' = "connecting"
                   /\ connectCalls' = connectCalls + 1
                   /\ fresh' = TRUE
                   /\ UNCHANGED <<idx, attempts>>
    /\ UNCHANGED rate

Fetch == \E response \in Responses : FetchSettled(response)

\* the transport reports a connection (the first one, or one after a reconnect)
Connect ==
    /\ ws \in {"connecting", "open"}
    /\ ws' = "open"
    /\ last' = Event("connect", <<>>, "ok", FALSE, onConnect, NoFrame, NoResponse)
    /\ UNCHANGED <<isUpdated, tradesMap, priceMap, rate, pc, idx, connectCalls, attempts,
                   fresh>>

\* the channels onConnect subscribes to
SymbolChannels == {ChannelOf(symbols[i]) : i \in 1..Len(symbols)}

\* the frame carried a tick on the channel of a configured symbol and its handling
\* reported no error
AcceptedTick(frame, outcome) ==
    /\ outcome = "ok"
    /\ frame.msg.ping = 0
    /\ frame.msg.subbed = <<>>
    /\ frame.msg.hasTick
    /\ frame.msg.ch \in SymbolChannels

\* the transport delivers a raw frame to onRawData
RawData(frame) ==
    /\ ws = "open"
    /\ LET res == onRawData(Store, isUpdated, frame, rate)
       IN  /\ Entries(res.st.t, Len(symbols)) <= MaxEntries
           /\ tradesMap' = res.st.t
           /\ priceMap' = res.st.p
           /\ isUpdated' = res.isUpdated
           /\ fresh' = (fresh \/ AcceptedTick(frame, res.outcome))
           /\ last' = [Event("frame", <<>>, res.outcome, FALSE, res.sent, frame, NoResponse)
                          EXCEPT !.made = res.made]
    /\ UNCHANGED <<rate, pc, idx, ws, connectCalls, attempts>>

Receive == \E frame \in Frames : RawData(frame)

\* the supervisor polls update()
Poll ==
    /\ LET res == update(isUpdated)
       IN  /\ isUpdated' = res.isUpdated
           /\ last' = Event("poll", <<>>, "ok", res.ret, <<>>, NoFrame, NoResponse)
    /\ fresh' = FALSE
    /\ UNCHANGED <<tradesMap, priceMap, rate, pc, idx, ws, connectCalls, attempts>>

\* the rate provider gets, loses or changes its KRW/USD rate
RateChange ==
    /\ \E r \in Rates \ {rate} : rate' = r
    /\ last' = Event("rate", <<>>, "ok", FALSE, <<>>, NoFrame, NoResponse)
    /\ UNCHANGED <<isUpdated, tradesMap, priceMap, pc, idx, ws, connectCalls, attempts,
                   fresh>>

\* the rate provider reports a KRW/USD rate of zero
RateZero ==
    /\ rate # num(0)
    /\ rate' = num(0)
    /\ last' = Event("rate", <<>>, "ok", FALSE, <<>>, NoFrame, NoResponse)
    /\ UNCHANGED <<isUpdated, tradesMap, priceMap, pc, idx, ws, connectCalls, attempts,
                   fresh>>

Next == InitStart \/ Fetch \/ Connect \/ Receive \/ Poll \/ RateChange

\* the adapter with a rate provider whose rate, when it has one, is not zero
Spec == Init /\ [][Next]_vars

NextZero == Next \/ RateZero

\* the adapter with a rate provider that may also report a rate of zero
SpecZero == Init /\ [][NextZero]_vars

\* the size parameter of the historical-candle request
size == 10

\* the frame of the tick of bucket id of the first configured symbol
BucketFrame(id) ==
    [inflate |-> TRUE, parse |-> TRUE,
     msg |-> Message(0, <<>>, "", ChannelOf(symbols[1]), TRUE,
                     [id |-> id, close |-> 1, amount |-> 1])]

\* the minute goes by: the transport delivers to onRawData the tick of the bucket that
\* follows the newest one of the first symbol's window
NewBucket ==
    /\ ws = "open"
    /\ LET w == getTradesOrEmpty(Store, symbols[1])
           newest == IF w = <<>> THEN 0
                     ELSE CHOOSE t \in {w[k].timestamp : k \in 1..Len(w)} :
                              \A k \in 1..Len(w) : w[k].timestamp <= t
           frame == BucketFrame((newest \div 1000) + 1)
           res == onRawData(Store, isUpdated, frame, rate)
       IN  /\ Len(w) <= size
           /\ tradesMap' = res.st.t
           /\ priceMap' = res.st.p
           /\ isUpdated' = res.isUpdated
           /\ fresh' = (fresh \/ AcceptedTick(frame, res.outcome))
           /\ last' = [Event("frame", <<>>, res.outcome, FALSE, res.sent, frame, NoResponse)
                          EXCEPT !.made = res.made]
    /\ UNCHANGED <<rate, pc, idx, ws, connectCalls, attempts>>

NextMinutes == InitStart \/ Fetch \/ Connect \/ NewBucket

\* the adapter on a stream that delivers, minute after minute, the tick of a new bucket
SpecMinutes == Init /\ [][NextMinutes]_vars

----------------------------------------------------------------------------
(* Vocabulary of the properties *)

\* the configured symbol a subscribed channel belongs to
SymbolOfChannel == [c \in SymbolChannels |-> CHOOSE s \in SymbolSet : ChannelOf(s) = c]

\* the step is the handling of a tick for configured symbol s, without error
TickStep(s) ==
    /\ last'.kind = "frame"
    /\ AcceptedTick(last'.frame, last'.outcome)
    /\ SymbolOfChannel[last'.frame.msg.ch] = s

\* the step is the completion of the historical-candle request of configured symbol s
FetchStep(s) == last'.kind = "fetch" /\ last'.sym = s

\* the window stored under a key, empty when nothing is stored
WindowOf(t, key) == IF t[key] = NoEntry THEN <<>> ELSE t[key].trades

\* the number of entries of a window with a given timestamp
Count(w, timestamp) == Cardinality({k \in 1..Len(w) : w[k].timestamp = timestamp})

\* the step changes nothing of the store and leaves the liveness flag as it is
NothingWritten == UNCHANGED <<tradesMap, priceMap, isUpdated>>

----------------------------------------------------------------------------
(* C1 *)

\* C1: a tick for bucket b of symbol S whose window holds an entry with timestamp
\* b * 1000 leaves the window's length unchanged, gives such an entry the tick's close
\* and amount and leaves every other entry as it was; when there is no such entry,
\* exactly one entry, the tick's, is appended. Hence feeding a tick again adds no entry
\* for its timestamp.
C1_TickMerge ==
    [][\A s \in SymbolSet : TickStep(s) =>
        LET old == WindowOf(tradesMap, s)
            new == WindowOf(tradesMap', s)
            tick == last'.frame.msg.tick
            entry == Trade(tick.id * 1000, num(tick.close), num(tick.amount))
        IN  IF Count(old, entry.timestamp) > 0
            THEN /\ Len(new) = Len(old)
                 /\ \E k \in 1..Len(old) :
                        /\ old[k].timestamp = entry.timestamp
                        /\ new[k] = entry
                        /\ \A j \in 1..Len(old) : j # k => new[j] = old[j]
                 /\ Count(new, entry.timestamp) = Count(old, entry.timestamp)
            ELSE /\ new = Append(old, entry)
                 /\ Count(new, entry.timestamp) = 1]_vars

\* a tick has overwritten the first of two entries of a window
C1_Witness ==
    /\ last.kind = "frame"
    /\ AcceptedTick(last.frame, last.outcome)
    /\ LET w == WindowOf(tradesMap, SymbolOfChannel[last.frame.msg.ch])
       IN  /\ Len(w) = 2
           /\ w[1].timestamp = last.frame.msg.tick.id * 1000
           /\ w[2].timestamp # w[1].timestamp
           /\ w[1].price = num(last.frame.msg.tick.close)

----------------------------------------------------------------------------
(* C2, C3 *)

\* the configured symbols quoted in USDT, and the X/KRW key of each configured symbol
UsdtSymbols == {s \in SymbolSet : getQuoteCurrency(s) = USDT}

DerivedKey == [s \in SymbolSet |-> ConvertedSymbol(s)]

\* the tick of the step is in the window of s and its close is the latest price of s
TickStored(s) ==
    LET tick == last'.frame.msg.tick
    IN  /\ priceMap'[s] = num(tick.close)
        /\ \E k \in 1..Len(WindowOf(tradesMap', s)) :
               WindowOf(tradesMap', s)[k] = Trade(tick.id * 1000, num(tick.close), num(tick.amount))

\* C2: when the KRW/USD rate is absent or zero, a tick or a bootstrap completion for a
\* configured X/USDT symbol updates the X/USDT window and latest price and leaves the
\* stored X/KRW window and X/KRW latest price as they were.
C2_SynthesisGating ==
    [][\A s \in UsdtSymbols :
        ((TickStep(s) \/ FetchStep(s)) /\ (rate = NoEntry \/ rate = num(0))) =>
            /\ tradesMap'[DerivedKey[s]] = tradesMap[DerivedKey[s]]
            /\ priceMap'[DerivedKey[s]] = priceMap[DerivedKey[s]]
            /\ TickStep(s) => TickStored(s)]_vars

\* q is the quotient of p by r, for decimals in any representation of the fraction
IsQuotient(q, p, r) == q.d # 0 /\ q.n * r.n * p.d = p.n * r.d * q.d

\* C3: after a bootstrap completion or a tick for a configured X/USDT symbol, handled
\* while a non-zero rate r is available, the stored X/KRW window has the length of the
\* X/USDT window and, position by position, its timestamp, its volume and its price
\* divided by r, whatever X/KRW window was stored before; and nothing is ever stored
\* under X/KRW for a symbol X/Y whose quote currency is not USDT.
C3_SynthesisCorrect ==
    [][/\ \A s \in UsdtSymbols :
            ((TickStep(s) \/ FetchStep(s)) /\ rate # NoEntry /\ rate # num(0)) =>
                LET src == WindowOf(tradesMap', s)
                    der == WindowOf(tradesMap', DerivedKey[s])
                IN  /\ Len(der) = Len(src)
                    /\ \A k \in 1..Len(src) :
                          /\ der[k].timestamp = src[k].timestamp
                          /\ der[k].volume = src[k].volume
                          /\ IsQuotient(der[k].price, src[k].price, rate)
       /\ \A s \in SymbolSet \ UsdtSymbols :
            /\ tradesMap'[DerivedKey[s]] = NoEntry
            /\ priceMap'[DerivedKey[s]] = NoEntry]_vars

\* a tick for BTC/USDT was handled at rate 2 and BTC/KRW holds two converted entries, the
\* last one of price 1/2
C3_Witness ==
    /\ last.kind = "frame"
    /\ AcceptedTick(last.frame, last.outcome)
    /\ SymbolOfChannel[last.frame.msg.ch] = BTCUSDT
    /\ rate = num(2)
    /\ Len(WindowOf(tradesMap, DerivedKey[BTCUSDT])) = 2
    /\ WindowOf(tradesMap, DerivedKey[BTCUSDT])[2].price = [n |-> 1, d |-> 2]
    /\ WindowOf(tradesMap, BTCUSDT)[2].price = num(1)

----------------------------------------------------------------------------
(* C4 *)

\* C4: update() returns true exactly when the liveness flag is set, and leaves it
\* cleared; and it returns true exactly when, since the call before it, initialize()
\* has finished or a tick was accepted: the first poll after the start returns true, a
\* poll that follows a poll with no accepted tick in between returns false, and any
\* number of accepted ticks between two polls make one true.
C4_PollAndClear ==
    [][last'.kind = "poll" =>
        /\ last'.ret = isUpdated
        /\ isUpdated' = FALSE
        /\ last'.ret = fresh]_vars

\* a poll after the start has returned true
C4_Witness == last.kind = "poll" /\ last.ret /\ pc = "done" /\ ~isUpdated

----------------------------------------------------------------------------
(* C5 *)

\* the channels generated that begin with 'market.' and, stripped of 'market.' and of
\* '.kline.1min' and upper-cased, equal no configured symbol with its slash removed
UnknownChannels ==
    {c \in Channels :
        /\ IndexOf(c, MarketPrefix) = 0
        /\ \A s \in SymbolSet : StripChannel(c) # Replace(s, Slash, <<>>)}

\* the step is the handling of a decoded market-data message on an unknown channel
UnknownChannelStep ==
    /\ last'.kind = "frame"
    /\ last'.frame.inflate /\ last'.frame.parse
    /\ last'.frame.msg.ping = 0 /\ last'.frame.msg.subbed = <<>>
    /\ last'.frame.msg.ch \in UnknownChannels

\* C5: a market-data message on an unknown channel is handled without any error being
\* reported and leaves every window, every latest price, every derived entry and the
\* liveness flag unchanged.
C5_UnknownChannelNoop ==
    [][UnknownChannelStep => (last'.outcome = "ok" /\ last'.sent = <<>> /\ NothingWritten)]_vars

\* a message on the kline channel of a symbol that is not configured was handled while
\* the windows held entries
C5_Witness ==
    /\ last.kind = "frame"
    /\ last.frame.msg.ch = OtherChannel
    /\ last.outcome = "ok"
    /\ Len(WindowOf(tradesMap, BTCUSDT)) > 0

----------------------------------------------------------------------------
(* C6, C7 *)

\* the channels generated that do not begin with 'market.'
NonMarketChannels == {c \in Channels : IndexOf(c, MarketPrefix) # 0}

\* the step is the handling of a decoded message that is no ping, no subscription
\* acknowledgement and no market-data message
UnrecognizedStep ==
    /\ last'.kind = "frame"
    /\ last'.frame.inflate /\ last'.frame.parse
    /\ last'.frame.msg.ping = 0 /\ last'.frame.msg.subbed = <<>>
    /\ last'.frame.msg.ch \in NonMarketChannels

\* C6: an unrecognized message raises an error that reaches the caller of the frame
\* handler (it is not merely reported while the stream goes on), and changes no window,
\* price or liveness flag.
C6_UnrecognizedFatal ==
    [][UnrecognizedStep => (last'.outcome = "escaped" /\ NothingWritten)]_vars

\* the step is the handling of a frame that does not decompress or does not parse
BadFrameStep ==
    /\ last'.kind = "frame"
    /\ ~(last'.frame.inflate /\ last'.frame.parse)

\* C7: a frame whose decompression fails or whose text does not parse is reported
\* through the error channel and dropped: no exception leaves the frame handler, and
\* no window, price or liveness flag changes.
C7_BadFrameNotFatal ==
    [][BadFrameStep => (last'.outcome = "reported" /\ NothingWritten)]_vars

----------------------------------------------------------------------------
(* C8, C9, C10 *)

\* the request of the step failed: network error, non-ok status, non-array or empty
\* payload
FailedRequest(response) ==
    \/ response.kind \in {"reject", "null"}
    \/ response.status # "ok"
    \/ ~response.isArray
    \/ response.data = <<>>

\* the positions of the payload's candles that the filter keeps
KeptRows(data) == {k \in 1..Len(data) : data[k].vol > 0}

Ascending(w) == \A j, k \in 1..Len(w) : j < k => w[j].timestamp <= w[k].timestamp

\* C8: after the bootstrap of a symbol from a valid response, its window is sorted
\* ascending by timestamp, holds one entry per candle kept, and the symbol's latest price
\* is the price of the window's last entry, which is that of a kept candle of greatest
\* id.
C8_BootstrapOrdering ==
    [][\A s \in SymbolSet : (FetchStep(s) /\ ~FailedRequest(last'.response)) =>
        LET w == WindowOf(tradesMap', s)
            data == last'.response.data
        IN  /\ Ascending(w)
            /\ Len(w) = Cardinality(KeptRows(data))
            /\ Len(w) > 0 =>
                /\ priceMap'[s] = w[Len(w)].price
                /\ \E k \in KeptRows(data) :
                      /\ \A j \in KeptRows(data) : data[j].id <= data[k].id
                      /\ w[Len(w)] = Trade(data[k].id * 1000, num(data[k].close),
                                           num(data[k].amount))]_vars

\* a response listing candle 2 before candle 1, both kept, has given a window of two
\* entries
C8_Witness ==
    /\ last.kind = "fetch"
    /\ last.outcome = "ok"
    /\ Len(last.response.data) = 2
    /\ last.response.data[1].id > last.response.data[2].id
    /\ Len(WindowOf(tradesMap, last.sym)) = 2
    /\ priceMap[last.sym] = num(last.response.data[1].close)

\* C9: after the bootstrap of a symbol from a valid response, no candle of volume 0 is
\* in its window, so that no stored trade has volume 0, and no such candle gives the
\* symbol's latest price or a derived entry; if every candle has volume 0 the window
\* stays empty and no latest price is written.
C9_BootstrapFiltering ==
    [][\A s \in SymbolSet : (FetchStep(s) /\ ~FailedRequest(last'.response)) =>
        LET w == WindowOf(tradesMap', s)
            der == WindowOf(tradesMap', DerivedKey[s])
            data == last'.response.data
            traded == {k \in 1..Len(data) : data[k].amount # 0}
        IN  /\ \A k \in 1..Len(w) : w[k].volume # num(0)
            /\ \A k \in 1..Len(der) : der[k].volume # num(0)
            /\ Len(w) <= Cardinality(traded)
            /\ traded = {} => (w = <<>> /\ priceMap'[s] = NoEntry)]_vars

\* C10: whatever requests fail, the request of every symbol is issued exactly once; a
\* failing symbol is reported and keeps an empty window and no price; a succeeding
\* symbol gets the window and latest price of its own response; no completion touches
\* another symbol's price or window (but for the emptying of the next symbol's window
\* as its request is issued); and after the last completion the liveness flag is set
\* and connect is called, exactly once.
C10_BootstrapIsolation ==
    [][/\ \A i \in 1..Len(symbols) : FetchStep(symbols[i]) =>
            LET s == symbols[i]
                w == WindowOf(tradesMap', s)
                response == last'.response
            IN  /\ idx = i /\ attempts[i] = 1
                /\ FailedRequest(response) =>
                      /\ last'.outcome = "reported"
                      /\ tradesMap'[s] = Window(<<>>)
                      /\ priceMap'[s] = NoEntry
                /\ ~FailedRequest(response) =>
                      /\ last'.outcome = "ok"
                      /\ Len(w) = Cardinality(KeptRows(response.data))
                      /\ IF Len(w) > 0 THEN priceMap'[s] = w[Len(w)].price
                                       ELSE priceMap'[s] = NoEntry
                /\ \A j \in 1..Len(symbols) : j # i =>
                      /\ priceMap'[symbols[j]] = priceMap[symbols[j]]
                      /\ IF j = i + 1 THEN tradesMap'[symbols[j]] = Window(<<>>)
                                      ELSE tradesMap'[symbols[j]] = tradesMap[symbols[j]]
                /\ IF i < Len(symbols)
                   THEN /\ pc' = "fetching" /\ idx' = i + 1 /\ attempts'[i + 1] = 1
                        /\ connectCalls' = 0 /\ ws' = "none"
                   ELSE /\ pc' = "done" /\ isUpdated' /\ connectCalls' = 1
                        /\ ws' = "connecting"
       /\ connectCalls' <= 1
       /\ \A i \in 1..Len(symbols) : attempts'[i] <= 1
       /\ pc' = "done" => (connectCalls' = 1 /\ \A i \in 1..Len(symbols) : attempts'[i] = 1)]_vars

\* the last request has failed after the first one succeeded: the first symbol has its
\* window and price, the flag is set and the connection is being opened
C10_Witness ==
    /\ pc = "done"
    /\ last.kind = "fetch"
    /\ FailedRequest(last.response)
    /\ last.outcome = "reported"
    /\ Len(WindowOf(tradesMap, symbols[1])) > 0
    /\ priceMap[symbols[1]] # NoEntry
    /\ tradesMap[symbols[2]] = Window(<<>>)
    /\ isUpdated
    /\ connectCalls = 1
    /\ ws = "connecting"

----------------------------------------------------------------------------
(* C11 *)

\* C11: in every state reached by the bootstrap followed by accepted ticks, the window
\* of each configured symbol and each derived window holds no more entries than the
\* size of the historical-candle request, 10.
C11_WindowBounded ==
    \A key \in StoreKeys : Len(WindowOf(tradesMap, key)) <= size

----------------------------------------------------------------------------
(* C12 *)

\* C12: in every state reached by the bootstrap, whatever response it accepted as
\* valid, followed by any ticks, no two entries of the window of a symbol, configured
\* or derived, have the same timestamp.
C12_TimestampsUnique ==
    \A key \in StoreKeys :
        LET w == WindowOf(tradesMap, key)
        IN  \A j, k \in 1..Len(w) : j # k => w[j].timestamp # w[k].timestamp

----------------------------------------------------------------------------
(* C13 *)

\* C13: in every state reached by the bootstrap followed by accepted ticks, whose
\* bucket ids come in any order, the window of each symbol, configured or derived, is
\* in non-decreasing order of timestamp.
C13_TimestampsOrdered ==
    \A key \in StoreKeys : Ascending(WindowOf(tradesMap, key))

----------------------------------------------------------------------------
(* C14 *)

\* the message of a ping of nonce n
PingMessage(n) == [EmptyMessage EXCEPT !.ping = n]

\* C14: the handling of a message that carries a ping of nonce n, for every nonce,
\* sends exactly one pong, of nonce n, and changes no window, no price and not the
\* flag; and a pong of nonce n is only ever sent by the handling of a ping of nonce n.
C14_KeepAliveEcho ==
    [][/\ \A n \in PingNonces :
            (/\ last'.kind = "frame"
             /\ last'.frame.inflate /\ last'.frame.parse
             /\ last'.frame.msg = PingMessage(n)) =>
                /\ last'.sent = <<[pong |-> n]>>
                /\ last'.outcome = "ok"
                /\ NothingWritten
       /\ \A k \in 1..Len(last'.sent) : "pong" \in DOMAIN last'.sent[k] =>
            /\ last'.kind = "frame"
            /\ last'.frame.inflate /\ last'.frame.parse
            /\ last'.frame.msg.ping = last'.sent[k].pong]_vars

----------------------------------------------------------------------------
(* C15 *)

\* the one-minute kline channel of each configured symbol, written out
KlineChannel ==
    [s \in SymbolSet |->
        IF s = BTCUSDT
        THEN <<"m", "a", "r", "k", "e", "t", ".", "b", "t", "c", "u", "s", "d", "t",
               ".", "k", "l", "i", "n", "e", ".", "1", "m", "i", "n">>
        ELSE <<"m", "a", "r", "k", "e", "t", ".", "e", "t", "h", "b", "t", "c",
               ".", "k", "l", "i", "n", "e", ".", "1", "m", "i", "n">>]

\* the one-minute kline channel a derived X/KRW symbol would have
DerivedChannels ==
    {<<"m", "a", "r", "k", "e", "t", ".", "b", "t", "c", "k", "r", "w",
       ".", "k", "l", "i", "n", "e", ".", "1", "m", "i", "n">>,
     <<"m", "a", "r", "k", "e", "t", ".", "e", "t", "h", "k", "r", "w",
       ".", "k", "l", "i", "n", "e", ".", "1", "m", "i", "n">>}

\* the frame of the step decodes to a tick on the kline channel of configured symbol s
TickFrameFor(s) ==
    /\ last'.kind = "frame"
    /\ last'.frame.inflate /\ last'.frame.parse
    /\ last'.frame.msg.ping = 0 /\ last'.frame.msg.subbed = <<>>
    /\ last'.frame.msg.hasTick
    /\ last'.frame.msg.ch = KlineChannel[s]

\* C15: on every connect event, the first one and every later one, exactly one
\* subscription request is sent for each configured symbol, naming the one-minute kline
\* channel of the symbol with its slash removed and in lower case, and none for a
\* derived X/KRW symbol; no acknowledgement is waited for: a tick for a configured
\* symbol is accepted whatever was received before it, also right after the connect
\* event and right after a rejected acknowledgement.
C15_SubscribeOnConnect ==
    [][/\ last'.kind = "connect" =>
            /\ Len(last'.sent) = Len(symbols)
            /\ \A s \in SymbolSet :
                  Cardinality({k \in 1..Len(last'.sent) :
                                  last'.sent[k] = [sub |-> KlineChannel[s]]}) = 1
            /\ \A k \in 1..Len(last'.sent) : last'.sent[k].sub \notin DerivedChannels
       /\ last'.kind # "connect" =>
            \A k \in 1..Len(last'.sent) : "sub" \notin DOMAIN last'.sent[k]
       /\ \A s \in SymbolSet : TickFrameFor(s) =>
            /\ last'.outcome = "ok"
            /\ TickStored(s)
            /\ isUpdated']_vars

\* a connect event that came after a poll had cleared the flag has sent the two
\* subscription requests, for btcusdt and for ethbtc
C15_Witness ==
    /\ last.kind = "connect"
    /\ last.sent = <<[sub |-> KlineChannel[BTCUSDT]], [sub |-> KlineChannel[ETHBTC]]>>
    /\ ws = "open"
    /\ ~isUpdated

----------------------------------------------------------------------------
(* C16 *)

\* the frame of the step decodes to a subscription acknowledgement
AckStep ==
    /\ last'.kind = "frame"
    /\ last'.frame.inflate /\ last'.frame.parse
    /\ last'.frame.msg.ping = 0
    /\ last'.frame.msg.subbed # <<>>

\* C16: the handling of a subscription acknowledgement whose status is not 'ok' ends
\* in an error that is reported, sends nothing, so no subscription request again, and
\* changes no window, no price and not the flag; the handling of an acknowledgement of
\* status 'ok' ends without error and changes nothing either.
C16_RejectedSubscription ==
    [][AckStep =>
        /\ last'.sent = <<>>
        /\ NothingWritten
        /\ UNCHANGED <<ws, connectCalls, pc>>
        /\ IF last'.frame.msg.status = "ok"
           THEN last'.outcome = "ok"
           ELSE last'.outcome = "reported"]_vars

\* an acknowledgement of status 'error' has been handled and reported while both
\* windows held an entry
C16_Witness ==
    /\ last.kind = "frame"
    /\ last.frame.inflate /\ last.frame.parse
    /\ last.frame.msg.subbed = KlineChannel[BTCUSDT]
    /\ last.frame.msg.status = "error"
    /\ last.outcome = "reported"
    /\ last.sent = <<>>
    /\ \A s \in SymbolSet : Len(WindowOf(tradesMap, s)) = 1

----------------------------------------------------------------------------
(* C17 *)

\* C17: no frame, so no tick of any symbol, is handled before the completion handler
\* of every symbol's bootstrap request has finished; and when a bootstrap completion
\* runs for a symbol, no connection has been asked for yet and the symbol's window is
\* the empty one its request left, so it holds nothing a tick has written; once
\* the bootstrap is over it never runs again.
C17_BootstrapBeforeStream ==
    [][/\ last'.kind = "frame" =>
            /\ pc = "done"
            /\ \A i \in 1..Len(symbols) : attempts[i] = 1 /\ idx = Len(symbols)
       /\ \A s \in SymbolSet : FetchStep(s) =>
            /\ pc = "fetching"
            /\ ws = "none" /\ connectCalls = 0
            /\ tradesMap[s] = Window(<<>>)
       /\ pc = "done" => pc' = "done"]_vars

\* after a bootstrap that stored one entry for ETH/BTC, a tick for another bucket of
\* ETH/BTC has been accepted and the window holds both
C17_Witness ==
    /\ pc = "done"
    /\ last.kind = "frame"
    /\ last.outcome = "ok"
    /\ last.frame.msg.hasTick
    /\ last.frame.msg.ch = KlineChannel[ETHBTC]
    /\ Len(WindowOf(tradesMap, ETHBTC)) = 2
    /\ Count(WindowOf(tradesMap, ETHBTC), last.frame.msg.tick.id * 1000) = 1

----------------------------------------------------------------------------
(* C18 *)

\* the tick of the step for s is applied in full: it is in the window of s, its close
\* is the latest price of s and, when s is an X/USDT symbol and there is a rate, the
\* X/KRW window and price are written from the window of s
FullyApplied(s) ==
    /\ TickStored(s)
    /\ (s \in UsdtSymbols /\ rate # NoEntry) =>
          /\ Len(WindowOf(tradesMap', DerivedKey[s])) = Len(WindowOf(tradesMap', s))
          /\ priceMap'[DerivedKey[s]] # NoEntry

\* C18: the liveness flag is false until initialize() is called; it goes from false to
\* true only in the step that completes the bootstrap or in the handling of a tick for
\* a configured symbol that is applied in full; the handling of any other frame (a
\* ping, an acknowledgement, a message on an unknown channel, an unrecognized message,
\* an undecodable frame) leaves it as it is, and the handling of every tick for a
\* configured symbol sets it.
C18_FlagByRealData ==
    [][/\ pc = "new" => ~isUpdated
       /\ (~isUpdated /\ isUpdated') =>
            \/ last'.kind = "fetch" /\ pc = "fetching" /\ pc' = "done"
            \/ \E s \in SymbolSet : TickStep(s) /\ TickFrameFor(s) /\ FullyApplied(s)
       /\ \A s \in SymbolSet : TickFrameFor(s) => isUpdated'
       /\ (last'.kind = "frame" /\ \A s \in SymbolSet : ~TickFrameFor(s)) =>
            isUpdated' = isUpdated
       /\ last'.kind \in {"start", "connect", "rate"} => isUpdated' = isUpdated]_vars

\* a tick for BTC/USDT handled at rate 2 has been accepted: the derived price is
\* written and the flag is set, no poll having cleared it since
C18_Witness ==
    /\ last.kind = "frame"
    /\ last.outcome = "ok"
    /\ last.frame.msg.hasTick
    /\ last.frame.msg.ch = KlineChannel[BTCUSDT]
    /\ rate = num(2)
    /\ priceMap[DerivedKey[BTCUSDT]] # NoEntry
    /\ isUpdated
    /\ fresh

----------------------------------------------------------------------------
(* C19 *)

\* C19: after every accepted tick for a configured X/USDT symbol handled while a
\* non-zero rate r is available, whichever entry of the window the tick wrote, the
\* latest price of X/USDT is the tick's close and the latest price of X/KRW is the
\* latest price of X/USDT divided by r.
C19_DerivedPriceTracksSource ==
    [][\A s \in UsdtSymbols :
        (TickStep(s) /\ rate # NoEntry /\ rate # num(0)) =>
            /\ priceMap'[s] = num(last'.frame.msg.tick.close)
            /\ priceMap'[DerivedKey[s]] # NoEntry
            /\ IsQuotient(priceMap'[DerivedKey[s]], priceMap'[s], rate)]_vars

----------------------------------------------------------------------------
(* C20 *)

\* C20: every call of automadeTrades is given a window of at least one entry, and the
\* handler that makes the call ends without error; a tick for a configured symbol and
\* a bootstrap completion with kept rows make one call, with the window they stored;
\* a bootstrap completion whose filtered result is empty makes no call and writes
\* neither the symbol's window nor any price nor any derived window.
C20_SynthesisNeverOnEmpty ==
    [][/\ \A k \in 1..Len(last'.made) : last'.made[k] >= 1
       /\ last'.made # <<>> => last'.outcome = "ok"
       /\ last'.kind \notin {"fetch", "frame"} => last'.made = <<>>
       /\ \A s \in SymbolSet : TickStep(s) =>
            last'.made = <<Len(WindowOf(tradesMap', s))>>
       /\ \A s \in SymbolSet : (FetchStep(s) /\ ~FailedRequest(last'.response)) =>
            IF KeptRows(last'.response.data) = {}
            THEN /\ last'.made = <<>>
                 /\ last'.outcome = "ok"
                 /\ tradesMap'[s] = tradesMap[s]
                 /\ priceMap' = priceMap
                 /\ \A t \in SymbolSet : tradesMap'[DerivedKey[t]] = tradesMap[DerivedKey[t]]
            ELSE /\ last'.made = <<Len(WindowOf(tradesMap', s))>>
                 /\ last'.made[1] = Cardinality(KeptRows(last'.response.data))]_vars

\* the bootstrap of BTC/USDT, at rate 2, got a response of candles that were all
\* filtered out: no call was made, no window and no price is stored
C20_Witness ==
    /\ last.kind = "fetch"
    /\ last.sym = BTCUSDT
    /\ rate = num(2)
    /\ ~FailedRequest(last.response)
    /\ Len(last.response.data) > 0
    /\ KeptRows(last.response.data) = {}
    /\ last.made = <<>>
    /\ tradesMap[BTCUSDT] = Window(<<>>)
    /\ priceMap[BTCUSDT] = NoEntry
    /\ tradesMap[DerivedKey[BTCUSDT]] = NoEntry

====
